---- MODULE Spec2Model ----
(***************************************************************************)
(* Model of keep94/fivebutton (main.go): the linked-list FIFO Queue, the   *)
(* KeyPress / KeySequence / Lock value types, the Lock.NextPresses         *)
(* generator and the breadth-first Combinations generator.                 *)
(*                                                                         *)
(* A [NumButtons]bool array (KeyPress, Lock) is modelled as the set of the *)
(* indices at which it is true: k[i] is written i \in k.  A generator      *)
(* takes one step per resumption: it runs from one yield to the next.      *)
(***************************************************************************)
EXTENDS Integers, Sequences, FiniteSets, TLC

(* main.go:17 and main.go:20 *)
NumButtons == 5
MaxAtOnce == 2

Buttons == 0 .. (NumButtons - 1)

VARIABLES
    pc,          \* Combinations is at: "start", "yield", "done", "stopped", "panic", "none"
    queue,       \* Combinations: queue of State (main.go:188)
    state,       \* Combinations: the State dequeued last (main.go:191)
    yielded,     \* history: the sequences handed to Combinations' yield, in order
    stopped,     \* history: Combinations' yield has returned false
    expansions,  \* history: number of calls of NextPresses made by Combinations
    ppc,         \* NextPresses is at: "start", "yield", "done", "stopped", "panic", "idle"
    plock,       \* NextPresses: the receiver l
    pqueue,      \* NextPresses: queue of KeyPress (main.go:144)
    press,       \* NextPresses: the KeyPress dequeued last (main.go:151)
    pyielded,    \* history: the presses handed to NextPresses' yield, in order
    pstopped,    \* history: NextPresses' yield has returned false
    lq,          \* a Queue[int] used directly by a client
    fifo,        \* history: the values enqueued in lq and not yet dequeued, oldest first
    call,        \* history: the last call made on lq, what it was given and returned
    hcall,       \* history: the last call of KeyPress.Highest and what it returned
    ncalls,      \* history: number of calls made by the client
    emptied,     \* history: a Dequeue has left lq empty
    applied,     \* the last call of Lock.Apply: receiver l, argument kp, result
    heap,        \* the backing arrays of the KeySequence slices allocated so far
    slices       \* the KeySequence slices made so far, each with its elements when made

vars == <<pc, queue, state, yielded, stopped, expansions,
          ppc, plock, pqueue, press, pyielded, pstopped,
          lq, fifo, call, hcall, ncalls, emptied, applied, heap, slices>>
callVars == <<lq, fifo, call, hcall, ncalls, emptied>>
unitVars == <<lq, fifo, call, hcall, ncalls, emptied, applied, heap, slices>>
combVars == <<pc, queue, state, yielded, stopped, expansions>>
npVars == <<ppc, plock, pqueue, press, pyielded, pstopped>>

(***************************************************************************)
(* Queue[T]: a singly linked list with an empty node at the back.          *)
(* nodes maps the address of each node still allocated to the node, next   *)
(* = 0 is the nil pointer, T is the zero value of the element type.  A     *)
(* node that Dequeue leaves unreachable is reclaimed.                      *)
(***************************************************************************)
NewQueue(zero) ==
    [T |-> zero, nodes |-> (1 :> [value |-> zero, next |-> 0]), front |-> 1, back |-> 1]

IsEmpty(q) == q.front = q.back

(* The address of n := &node[T]{} : one not in use. *)
NewNode(q) == 1 + CHOOSE a \in DOMAIN q.nodes : \A b \in DOMAIN q.nodes : b <= a

(* Enqueue with the new node linked in at the front of the list. *)
EnqueueFront(q, value) ==
    LET n == NewNode(q)
    IN  [q EXCEPT !.nodes = q.nodes @@ (n :> [value |-> value, next |-> q.front]),
                  !.front = n]

Enqueue(q, value) ==
    LET n == NewNode(q)
    IN  [q EXCEPT !.nodes = [q.nodes EXCEPT ![q.back] = [value |-> value, next |-> n]]
                              @@ (n :> [value |-> q.T, next |-> 0]),
                  !.back = n]

(* Dequeue returning the zero value when q is empty. *)
DequeueSentinel(q) ==
    IF IsEmpty(q)
    THEN [panic |-> FALSE, value |-> q.T, q |-> q]
    ELSE [panic |-> FALSE,
          value |-> q.nodes[q.front].value,
          q |-> [q EXCEPT !.front = q.nodes[q.front].next,
                          !.nodes = [a \in DOMAIN q.nodes \ {q.front} |-> q.nodes[a]]]]

Dequeue(q) ==
    IF IsEmpty(q)
    THEN [panic |-> TRUE, q |-> q]
    ELSE [panic |-> FALSE,
          value |-> q.nodes[q.front].value,
          q |-> [q EXCEPT !.front = q.nodes[q.front].next,
                          !.nodes = [a \in DOMAIN q.nodes \ {q.front} |-> q.nodes[a]]]]

(***************************************************************************)
(* KeyPress                                                                *)
(***************************************************************************)
ZeroKeyPress == {}

(* SingleKeyPress without the assignment to result[button]. *)
SingleKeyPressZero(button) == ZeroKeyPress

SingleKeyPress(button) == ZeroKeyPress \cup {button}

Add(k, button) == k \cup {button}

RECURSIVE HighestFrom(_, _)
HighestFrom(k, i) ==
    IF i < 0 THEN [panic |-> TRUE]
    ELSE IF i \in k THEN [panic |-> FALSE, index |-> i]
    ELSE HighestFrom(k, i - 1)

Highest(k) == HighestFrom(k, NumButtons - 1)

RECURSIVE KeyPressLenFrom(_, _)
KeyPressLenFrom(k, i) ==
    IF i >= NumButtons THEN 0
    ELSE (IF i \in k THEN 1 ELSE 0) + KeyPressLenFrom(k, i + 1)

KeyPressLen(k) == KeyPressLenFrom(k, 0)

(* '1' + byte(i) *)
Digit(i) == <<"1", "2", "3", "4", "5", "6", "7", "8", "9">>[i + 1]

RECURSIVE KeyPressStringFrom(_, _)
KeyPressStringFrom(k, i) ==
    IF i >= NumButtons THEN <<>>
    ELSE (IF i \in k THEN <<Digit(i)>> ELSE <<>>) \o KeyPressStringFrom(k, i + 1)

(* String with its loop starting at button 1. *)
KeyPressStringSkipFirst(k) == KeyPressStringFrom(k, 1)

(* The string as the sequence of its characters. *)
KeyPressString(k) == KeyPressStringFrom(k, 0)

(***************************************************************************)
(* KeySequence                                                             *)
(***************************************************************************)
(* Append with the press appended twice. *)
KeySequenceAppendTwice(ks, k) == Append(Append(ks, k), k)

KeySequenceAppend(ks, k) == Append(ks, k)

RECURSIVE Join(_)
Join(parts) ==
    IF Len(parts) = 0 THEN <<>>
    ELSE IF Len(parts) = 1 THEN parts[1]
    ELSE parts[1] \o <<"-">> \o Join(Tail(parts))

KeySequenceString(ks) == Join([i \in 1 .. Len(ks) |-> KeyPressString(ks[i])])

(***************************************************************************)
(* Lock                                                                    *)
(***************************************************************************)
ZeroLock == {}

RECURSIVE ApplyFrom(_, _, _)
ApplyFrom(l, kp, i) ==
    IF i >= NumButtons THEN l
    ELSE ApplyFrom(IF i \in kp THEN l \cup {i} ELSE l, kp, i + 1)

(* Apply assigning l[i] = kp[i]. *)
ApplyOverwrite(l, kp) == kp

(* Apply without the test of kp[i]. *)
ApplyAlways(l, kp) == l \cup Buttons

Apply(l, kp) == ApplyFrom(l, kp, 0)

(* NextPresses, the first loop (main.go:145-149). *)
RECURSIVE SeedFrom(_, _, _)
SeedFrom(q, l, i) ==
    IF i >= NumButtons THEN q
    ELSE SeedFrom(IF i \notin l THEN Enqueue(q, SingleKeyPress(i)) ELSE q, l, i + 1)

(* The first loop starting at button 1. *)
SeedSkipFirst(l) == SeedFrom(NewQueue(ZeroKeyPress), l, 1)

(* The first loop running from the highest button down. *)
RECURSIVE SeedDownFrom(_, _, _)
SeedDownFrom(q, l, i) ==
    IF i < 0 THEN q
    ELSE SeedDownFrom(IF i \notin l THEN Enqueue(q, SingleKeyPress(i)) ELSE q, l, i - 1)

SeedDescending(l) == SeedDownFrom(NewQueue(ZeroKeyPress), l, NumButtons - 1)

(* The first loop without the test of l[i]. *)
SeedAll(l) == SeedFrom(NewQueue(ZeroKeyPress), ZeroLock, 0)

(* NextPresses up to its second loop (main.go:144-149). *)
Seed(l) == SeedFrom(NewQueue(ZeroKeyPress), l, 0)

(* NextPresses, the loop that extends kp (main.go:158-162). *)
RECURSIVE ExtendFrom(_, _, _, _)
ExtendFrom(q, l, kp, i) ==
    IF i >= NumButtons THEN q
    ELSE ExtendFrom(IF i \notin l THEN Enqueue(q, Add(kp, i)) ELSE q, l, kp, i + 1)

(* The extension loop running from the highest button down to Highest + 1. *)
RECURSIVE ExtendDownFrom(_, _, _, _, _)
ExtendDownFrom(q, l, kp, i, lowest) ==
    IF i < lowest THEN q
    ELSE ExtendDownFrom(IF i \notin l THEN Enqueue(q, Add(kp, i)) ELSE q, l, kp, i - 1, lowest)

ExtendDescending(q, l, kp) ==
    IF KeyPressLen(kp) = MaxAtOnce THEN [panic |-> FALSE, q |-> q]
    ELSE IF Highest(kp).panic THEN [panic |-> TRUE, q |-> q]
    ELSE [panic |-> FALSE,
          q |-> ExtendDownFrom(q, l, kp, NumButtons - 1, Highest(kp).index + 1)]

(* The extension loop adding every unpressed button not in kp, the *)
(* lower ones included.                                            *)
RECURSIVE ExtendAnyFrom(_, _, _, _)
ExtendAnyFrom(q, l, kp, i) ==
    IF i >= NumButtons THEN q
    ELSE ExtendAnyFrom(IF i \notin l /\ i \notin kp THEN Enqueue(q, Add(kp, i)) ELSE q,
                       l, kp, i + 1)

ExtendAnyOrder(q, l, kp) ==
    IF KeyPressLen(kp) = MaxAtOnce THEN [panic |-> FALSE, q |-> q]
    ELSE [panic |-> FALSE, q |-> ExtendAnyFrom(q, l, kp, 0)]

(* The extension loop starting at Highest + 2. *)
ExtendSkipOne(q, l, kp) ==
    IF KeyPressLen(kp) = MaxAtOnce THEN [panic |-> FALSE, q |-> q]
    ELSE IF Highest(kp).panic THEN [panic |-> TRUE, q |-> q]
    ELSE [panic |-> FALSE, q |-> ExtendFrom(q, l, kp, Highest(kp).index + 2)]

(* NextPresses, from the return of yield(kp) to the next loop test *)
(* (main.go:155-162).                                              *)
Extend(q, l, kp) ==
    IF KeyPressLen(kp) = MaxAtOnce THEN [panic |-> FALSE, q |-> q]
    ELSE IF Highest(kp).panic THEN [panic |-> TRUE, q |-> q]
    ELSE [panic |-> FALSE, q |-> ExtendFrom(q, l, kp, Highest(kp).index + 1)]

(***************************************************************************)
(* State and Combinations                                                  *)
(***************************************************************************)
ZeroState == [Lock |-> ZeroLock, Seq |-> <<>>]

(* The range loop of Combinations over st.Lock.NextPresses(), run to its *)
(* end (main.go:195-199): pq is the queue of NextPresses, q the queue of *)
(* Combinations; the loop body is the yield of NextPresses and always    *)
(* asks for more.                                                        *)
RECURSIVE RangeLoop(_, _, _)
RangeLoop(q, pq, st) ==
    IF IsEmpty(pq) THEN [panic |-> FALSE, q |-> q]
    ELSE LET d == Dequeue(pq)
             kp == d.value
             lock == Apply(st.Lock, kp)
             seq == KeySequenceAppend(st.Seq, kp)
             e == Extend(d.q, st.Lock, kp)
         IN  IF d.panic THEN [panic |-> TRUE, q |-> q]
             ELSE IF e.panic THEN [panic |-> TRUE, q |-> Enqueue(q, [Lock |-> lock, Seq |-> seq])]
             ELSE RangeLoop(Enqueue(q, [Lock |-> lock, Seq |-> seq]), e.q, st)

(* Nothing is called directly on a Queue, a KeyPress, a Lock or a KeySequence. *)
UnitIdle ==
    /\ lq = NewQueue(0)
    /\ fifo = <<>>
    /\ call = [op |-> "none"]
    /\ hcall = [op |-> "none"]
    /\ ncalls = 0
    /\ emptied = FALSE
    /\ applied = [l |-> ZeroLock, kp |-> ZeroKeyPress, result |-> ZeroLock]
    /\ heap = <<>>
    /\ slices = <<>>

Init ==
    /\ pc = "start"
    /\ queue = NewQueue(ZeroState)
    /\ state = ZeroState
    /\ yielded = <<>>
    /\ stopped = FALSE
    /\ expansions = 0
    /\ ppc = "idle"
    /\ plock = ZeroLock
    /\ pqueue = NewQueue(ZeroKeyPress)
    /\ press = ZeroKeyPress
    /\ pyielded = <<>>
    /\ pstopped = FALSE
    /\ UnitIdle

(* Combinations from its loop test to the next yield or to its return *)
(* (main.go:190-192), q being the queue at the loop test.             *)
LoopTest(q) ==
    IF IsEmpty(q)
    THEN /\ pc' = "done"
         /\ queue' = q
         /\ UNCHANGED <<state, yielded>>
    ELSE LET d == Dequeue(q)
         IN  IF d.panic
             THEN /\ pc' = "panic"
                  /\ queue' = d.q
                  /\ UNCHANGED <<state, yielded>>
             ELSE /\ pc' = "yield"
                  /\ queue' = d.q
                  /\ state' = d.value
                  /\ yielded' = Append(yielded, d.value.Seq)

(* The consumer starts the generator: main.go:188-192. *)
CombCall ==
    /\ pc = "start"
    /\ LoopTest(Enqueue(NewQueue(ZeroState), ZeroState))
    /\ UNCHANGED <<stopped, expansions>>
    /\ UNCHANGED npVars
    /\ UNCHANGED unitVars

(* The result of yield ignored. *)
AfterYieldIgnored(more) == "range"

(* What Combinations does when yield returns more (main.go:192-195). *)
AfterYield(more) == IF more THEN "range" ELSE "return"

(* yield returns more to Combinations, which runs to its next yield or *)
(* to its return (main.go:192-200).                                    *)
CombResume(more) ==
    /\ pc = "yield"
    /\ stopped' = (stopped \/ ~more)
    /\ IF AfterYield(more) = "return"
       THEN /\ pc' = "stopped"
            /\ UNCHANGED <<queue, state, yielded, expansions>>
       ELSE LET r == RangeLoop(queue, Seed(state.Lock), state)
            IN  /\ expansions' = expansions + 1
                /\ IF r.panic
                   THEN /\ pc' = "panic"
                        /\ queue' = r.q
                        /\ UNCHANGED <<state, yielded>>
                   ELSE LoopTest(r.q)
    /\ UNCHANGED npVars
    /\ UNCHANGED unitVars

Next ==
    \/ CombCall
    \/ \E more \in BOOLEAN : CombResume(more)

Spec == Init /\ [][Next]_vars

(* Combinations is the only thing running, and it has no blocking call: *)
(* a step that can be taken is taken.                                   *)
FairSpec == Spec /\ WF_vars(Next)

(***************************************************************************)
(* NextPresses called on its own, on any lock, by a consumer that may stop *)
(* at any press.                                                           *)
(***************************************************************************)
Locks == SUBSET Buttons

InitNP ==
    /\ pc = "none"
    /\ queue = NewQueue(ZeroState)
    /\ state = ZeroState
    /\ yielded = <<>>
    /\ stopped = FALSE
    /\ expansions = 0
    /\ ppc = "start"
    /\ plock \in Locks
    /\ pqueue = NewQueue(ZeroKeyPress)
    /\ press = ZeroKeyPress
    /\ pyielded = <<>>
    /\ pstopped = FALSE
    /\ UnitIdle

(* NextPresses from its loop test to the next yield or to its return *)
(* (main.go:150-152), q being its queue at the loop test.            *)
PressLoopTest(q) ==
    IF IsEmpty(q)
    THEN /\ ppc' = "done"
         /\ pqueue' = q
         /\ UNCHANGED <<press, pyielded>>
    ELSE LET d == Dequeue(q)
         IN  IF d.panic
             THEN /\ ppc' = "panic"
                  /\ pqueue' = d.q
                  /\ UNCHANGED <<press, pyielded>>
             ELSE /\ ppc' = "yield"
                  /\ pqueue' = d.q
                  /\ press' = d.value
                  /\ pyielded' = Append(pyielded, d.value)

(* The consumer starts the generator: main.go:144-152. *)
LockCall ==
    /\ ppc = "start"
    /\ PressLoopTest(Seed(plock))
    /\ UNCHANGED <<plock, pstopped>>
    /\ UNCHANGED combVars
    /\ UNCHANGED unitVars

(* The result of yield ignored. *)
AfterPressYieldIgnored(more) == "extend"

(* What NextPresses does when yield returns more (main.go:152-155). *)
AfterPressYield(more) == IF more THEN "extend" ELSE "return"

(* yield returns more to NextPresses, which runs to its next yield or *)
(* to its return (main.go:152-164).                                   *)
LockResume(more) ==
    /\ ppc = "yield"
    /\ pstopped' = (pstopped \/ ~more)
    /\ IF AfterPressYield(more) = "return"
       THEN /\ ppc' = "stopped"
            /\ UNCHANGED <<pqueue, press, pyielded>>
       ELSE LET e == Extend(pqueue, plock, press)
            IN  IF e.panic
                THEN /\ ppc' = "panic"
                     /\ pqueue' = e.q
                     /\ UNCHANGED <<press, pyielded>>
                ELSE PressLoopTest(e.q)
    /\ UNCHANGED plock
    /\ UNCHANGED combVars
    /\ UNCHANGED unitVars

NextNP ==
    \/ LockCall
    \/ \E more \in BOOLEAN : LockResume(more)

SpecNP == InitNP /\ [][NextNP]_vars

(***************************************************************************)
(* Definitions used to state the properties.                               *)
(***************************************************************************)
(* Every press of 1 .. MaxAtOnce buttons. *)
AllPresses == {k \in SUBSET Buttons : Cardinality(k) \in 1 .. MaxAtOnce}

PairwiseDisjoint(s) ==
    \A i, j \in 1 .. Len(s) : i # j => s[i] \cap s[j] = {}

(* Every sequence of pairwise disjoint presses; none is longer than *)
(* NumButtons, a press having at least one button.                  *)
AllSequences ==
    UNION {{s \in [1 .. n -> AllPresses] : PairwiseDisjoint(s)} : n \in 0 .. NumButtons}

PressedBy(s) == UNION {s[i] : i \in 1 .. Len(s)}

Range(s) == {s[i] : i \in 1 .. Len(s)}

Last(s) == s[Len(s)]

\* C1: a result yielded before another has no more presses than it: the
\* latest result is at least as long as every earlier one at every point
\* of the run, and at the end this holds of every pair of results.
OrderedByLength ==
    /\ \A i \in 1 .. Len(yielded) : Len(yielded[i]) <= Len(Last(yielded))
    /\ pc = "done" =>
         \A i, j \in 1 .. Len(yielded) : i < j => Len(yielded[i]) <= Len(yielded[j])

OrderedByLengthWitness ==
    /\ Len(yielded) > 20
    /\ Len(yielded[1]) < Len(yielded[10])
    /\ Len(yielded[10]) < Len(Last(yielded))

\* C2: consumed to exhaustion, Combinations has yielded exactly the
\* sequences of pairwise disjoint presses of 1..MaxAtOnce buttons, the
\* empty one included, each of them once.
YieldsAllSequencesOnce ==
    pc = "done" =>
        /\ Range(yielded) = AllSequences
        /\ Len(yielded) = Cardinality(Range(yielded))

YieldsAllSequencesOnceWitness ==
    /\ pc = "done"
    /\ \E i \in 1 .. Len(yielded) : Len(yielded[i]) = NumButtons
    /\ \E i \in 1 .. Len(yielded) : Len(yielded[i]) = 3 /\ PressedBy(yielded[i]) = Buttons

\* C3: for NumButtons = 5 and MaxAtOnce = 2, Combinations consumed to
\* exhaustion yields 936 results, the empty sequence being one of them.
Yields936 ==
    pc = "done" =>
        /\ Len(yielded) = 936
        /\ <<>> \in Range(yielded)

Yields936Witness ==
    /\ pc = "done"
    /\ ~stopped
    /\ IsEmpty(queue)
    /\ yielded # <<>>

(* The lock reached by applying the presses of s in order to the initial lock. *)
RECURSIVE ApplyAllFrom(_, _, _)
ApplyAllFrom(l, s, i) ==
    IF i > Len(s) THEN l
    ELSE ApplyAllFrom(Apply(l, s[i]), s, i + 1)

ApplyAll(s) == ApplyAllFrom(ZeroLock, s, 1)

FullLock == Buttons

Complete(s) == ApplyAll(s) = FullLock

Front(s) == SubSeq(s, 1, Len(s) - 1)

(* Every sequence of at most NumButtons presses that leaves every button *)
(* pressed, its presses disjoint or not.                                  *)
UnlockingSequences ==
    {s \in UNION {[1 .. n -> AllPresses] : n \in 0 .. NumButtons} : PressedBy(s) = Buttons}

(* The sequences of pairwise disjoint presses that leave every button pressed. *)
CompleteSequences == {s \in AllSequences : PressedBy(s) = Buttons}

\* C4 as stated: the number of results is 1 plus the number of press
\* sequences that unlock all 5 buttons (whether the presses of a sequence
\* may overlap or not).
CountIsOnePlusUnlocking ==
    pc = "done" =>
        \/ Len(yielded) = 1 + Cardinality(UnlockingSequences)
        \/ Len(yielded) = 1 + Cardinality(CompleteSequences)

\* C4 amended: the number of results is 1 plus the number of non-empty
\* sequences of pairwise disjoint presses of size 1 or 2, unlocking all
\* buttons or not; the results that unlock all 5 buttons are exactly the
\* sequences of pairwise disjoint presses that do, fewer than the others.
CountIsOnePlusNonEmpty ==
    pc = "done" =>
        /\ Len(yielded) = 1 + Cardinality(AllSequences \ {<<>>})
        /\ {s \in Range(yielded) : Complete(s)} = CompleteSequences
        /\ Cardinality(CompleteSequences) < Len(yielded) - 1

CountIsOnePlusNonEmptyWitness ==
    /\ pc = "done"
    /\ \E i \in 1 .. Len(yielded) : Complete(yielded[i])
    /\ \E i \in 1 .. Len(yielded) : yielded[i] # <<>> /\ ~Complete(yielded[i])

\* C5 as stated: every yielded sequence leaves all NumButtons buttons
\* pressed, and they are all pressed for the first time at its last press.
AllYieldedComplete ==
    \A i \in 1 .. Len(yielded) :
        /\ Complete(yielded[i])
        /\ yielded[i] # <<>> => ~Complete(Front(yielded[i]))

\* C5 amended: every yielded sequence that leaves all NumButtons buttons
\* pressed has them all pressed for the first time at its last press; the
\* other yielded sequences (the empty one, and every one that leaves a
\* button unpressed) are not completed sequences.
CompleteOnlyAtLastPress ==
    \A i \in 1 .. Len(yielded) :
        Complete(yielded[i]) => (yielded[i] # <<>> /\ ~Complete(Front(yielded[i])))

CompleteOnlyAtLastPressWitness ==
    /\ yielded # <<>>
    /\ Complete(Last(yielded))
    /\ ~Complete(yielded[1])
    /\ ~Complete(yielded[2])

(* The first results as strings: "", the single presses, the double presses. *)
FirstResults ==
    << <<>>, <<"1">>, <<"2">>, <<"3">>, <<"4">>, <<"5">>,
       <<"1", "2">>, <<"1", "3">>, <<"1", "4">>, <<"1", "5">>,
       <<"2", "3">>, <<"2", "4">>, <<"2", "5">>,
       <<"3", "4">>, <<"3", "5">>, <<"4", "5">> >>

\* C6: the first result is the empty sequence, results 2..6 are "1".."5",
\* the next ones are the double presses "12","13","14","15","23",... in
\* ascending order, and no sequence of two presses comes before them.
PrefixAsDocumented ==
    /\ \A i \in 1 .. Len(yielded) :
           i <= Len(FirstResults) => KeySequenceString(yielded[i]) = FirstResults[i]
    /\ \A i \in 1 .. Len(yielded) :
           Len(yielded[i]) >= 2 => i > Len(FirstResults)

PrefixAsDocumentedWitness ==
    /\ Len(yielded) > Len(FirstResults)
    /\ Len(yielded[Len(FirstResults) + 1]) = 2

(* The legal presses of lock l: 1 .. MaxAtOnce buttons, all unpressed in l. *)
LegalPresses(l) == {k \in AllPresses : k \cap l = {}}

\* C7: NextPresses(l) yields only legal presses of l, yields no press
\* twice, and consumed to exhaustion has yielded every legal press of l.
NextPressesExact ==
    /\ \A i \in 1 .. Len(pyielded) : pyielded[i] \in LegalPresses(plock)
    /\ \A i, j \in 1 .. Len(pyielded) : i # j => pyielded[i] # pyielded[j]
    /\ ppc = "done" => Range(pyielded) = LegalPresses(plock)

NextPressesExactWitness ==
    /\ ppc = "done"
    /\ plock # {}
    /\ \E i \in 1 .. Len(pyielded) : Cardinality(pyielded[i]) = MaxAtOnce
    /\ Len(pyielded) = 6

\* C8: NextPresses(l) yields every press with fewer buttons before every
\* press with more buttons, and the single-button presses in ascending
\* order of their button.
NextPressesBySize ==
    \A i, j \in 1 .. Len(pyielded) :
        i < j =>
            /\ Cardinality(pyielded[i]) <= Cardinality(pyielded[j])
            /\ (Cardinality(pyielded[i]) = 1 /\ Cardinality(pyielded[j]) = 1)
                 => \A a \in pyielded[i] : \A b \in pyielded[j] : a < b

NextPressesBySizeWitness ==
    /\ Len(pyielded) >= 4
    /\ Cardinality(pyielded[1]) = 1
    /\ Cardinality(pyielded[2]) = 1
    /\ Cardinality(Last(pyielded)) = 2

\* C9: once yield has returned false on the K-th result nothing is dequeued,
\* enqueued, expanded or yielded any more, and at most K expansions (calls
\* of NextPresses) have been made.
StopsAtOnce ==
    /\ [](expansions <= Len(yielded))
    /\ [][stopped' => UNCHANGED <<queue, state, expansions, yielded>>]_vars

StopsAtOnceWitness ==
    /\ stopped
    /\ pc = "stopped"
    /\ Len(yielded) >= 3
    /\ expansions = Len(yielded) - 1
    /\ ~IsEmpty(queue)

\* C10: if the consumer keeps pulling, Combinations finds its queue empty
\* and finishes; no sequence yielded or enqueued has more than NumButtons
\* presses.
Terminates ==
    /\ ([]~stopped) => <>(pc = "done")
    /\ [](/\ \A i \in 1 .. Len(yielded) : Len(yielded[i]) <= NumButtons
          /\ \A a \in DOMAIN queue.nodes : Len(queue.nodes[a].value.Seq) <= NumButtons)

TerminatesWitness ==
    /\ pc = "done"
    /\ ~stopped
    /\ Len(Last(yielded)) = NumButtons
    /\ expansions = Len(yielded)

\* C11: in every run of Combinations, and of the NextPresses it starts,
\* Dequeue is never called on an empty queue and Highest never on a press
\* with no button: no panic is raised.
NeverPanics ==
    /\ pc # "panic"
    /\ ppc # "panic"

NeverPanicsWitness ==
    /\ pc = "yield"
    /\ expansions >= 2
    /\ Len(yielded) >= 3
    /\ ~IsEmpty(queue)

(* ceil(NumButtons / MaxAtOnce) *)
ShortestComplete == (NumButtons + MaxAtOnce - 1) \div MaxAtOnce

(* The yielded sequences that are another yielded sequence less its last press. *)
Parents == {Front(t) : t \in Range(yielded) \ {<<>>}}

\* C12: a yielded sequence whose lock has no unpressed button has between
\* ceil(N/M) and N presses; the node of such a sequence gets no child, and
\* every other node gets one.
LeavesAreComplete ==
    /\ pc = "yield" =>
         /\ state.Lock = Buttons =>
              /\ Len(state.Seq) >= ShortestComplete
              /\ Len(state.Seq) <= NumButtons
         /\ (RangeLoop(queue, Seed(state.Lock), state).q = queue) <=> (state.Lock = Buttons)
    /\ pc = "done" =>
         \A s \in Range(yielded) :
             /\ Complete(s) => (Len(s) >= ShortestComplete /\ Len(s) <= NumButtons)
             /\ (s \notin Parents) <=> Complete(s)

LeavesAreCompleteWitness ==
    /\ pc = "done"
    /\ \E s \in Range(yielded) : Complete(s) /\ Len(s) = ShortestComplete /\ s \notin Parents
    /\ \E s \in Range(yielded) : Complete(s) /\ Len(s) = NumButtons /\ s \notin Parents
    /\ \E s \in Range(yielded) : ~Complete(s) /\ s \in Parents

(* The button a digit of a formatted sequence stands for. *)
ButtonOfDigit ==
    ("1" :> 0) @@ ("2" :> 1) @@ ("3" :> 2) @@ ("4" :> 3) @@ ("5" :> 4) @@
    ("6" :> 5) @@ ("7" :> 6) @@ ("8" :> 7) @@ ("9" :> 8)

(* The set of buttons whose digits occur in the string str. *)
ButtonsIn(str) == {ButtonOfDigit[str[i]] : i \in {j \in 1 .. Len(str) : str[j] # "-"}}

\* C13: the set of digits in the formatted string of a yielded sequence is
\* the lock reached by applying the presses of the sequence to the initial
\* lock: of the latest result at every point, of every result at the end.
RoundTrip ==
    /\ yielded # <<>> =>
         ButtonsIn(KeySequenceString(Last(yielded))) = ApplyAll(Last(yielded))
    /\ pc = "done" =>
         \A i \in 1 .. Len(yielded) :
             ButtonsIn(KeySequenceString(yielded[i])) = ApplyAll(yielded[i])

RoundTripWitness ==
    /\ yielded # <<>>
    /\ Len(Last(yielded)) = 3
    /\ Cardinality(Last(yielded)[2]) = 2
    /\ Len(KeySequenceString(Last(yielded))) = 6
    /\ ButtonsIn(KeySequenceString(Last(yielded))) = state.Lock

\* C17: once yield has returned false for a press, NextPresses returns:
\* it dequeues nothing more, does not extend the press it yielded and yields
\* no further press.
PressStopsAtOnce ==
    [][pstopped' => (ppc' = "stopped" /\ UNCHANGED <<pqueue, press, pyielded>>)]_vars

PressStopsAtOnceWitness ==
    /\ pstopped
    /\ ppc = "stopped"
    /\ ~IsEmpty(pqueue)
    /\ Cardinality(press) = 1
    /\ \E b \in Buttons \ plock : \A a \in press : a < b

(* The State st is the outcome of its own presses. *)
NodeConsistent(st) ==
    /\ st.Lock = PressedBy(st.Seq)
    /\ PairwiseDisjoint(st.Seq)
    /\ \A i \in 1 .. Len(st.Seq) :
           Cardinality(st.Seq[i]) >= 1 /\ Cardinality(st.Seq[i]) <= MaxAtOnce

(* The addresses of the nodes of q that hold a value. *)
Held(q) == DOMAIN q.nodes \ {q.back}

\* C19: for every State held in the queue of Combinations, and for the one
\* dequeued last, Lock is the union of the presses of Seq, these presses
\* are pairwise disjoint and each has between 1 and MaxAtOnce buttons.
FrontierConsistent ==
    /\ \A a \in Held(queue) : NodeConsistent(queue.nodes[a].value)
    /\ pc \in {"yield", "stopped", "done"} => NodeConsistent(state)

FrontierConsistentWitness ==
    /\ pc = "yield"
    /\ \E a \in Held(queue) :
           /\ Len(queue.nodes[a].value.Seq) = 3
           /\ Cardinality(queue.nodes[a].value.Seq[2]) = MaxAtOnce
           /\ Cardinality(queue.nodes[a].value.Lock) = 4

(* The queue q holds sequences of at most two lengths, the second one   *)
(* more than the first, none shorter than k, and no node is followed by *)
(* a node with a shorter sequence.                                      *)
BreadthFirst(q, k) ==
    /\ \A a \in Held(q) :
           q.nodes[a].next # q.back =>
               Len(q.nodes[a].value.Seq) <= Len(q.nodes[q.nodes[a].next].value.Seq)
    /\ LET lengths == {Len(q.nodes[a].value.Seq) : a \in Held(q)}
       IN  /\ \A x, y \in lengths : x - y <= 1
           /\ \A x \in lengths : x >= k

\* C20: the queue of Combinations holds sequences of at most two lengths k
\* and k+1, those of length k ahead of the others, k being at least the
\* length of the last sequence yielded: at every yield, and with the
\* children of the yielded node enqueued.
FrontierBreadthFirst ==
    yielded # <<>> =>
        /\ BreadthFirst(queue, Len(Last(yielded)))
        /\ pc = "yield" =>
             BreadthFirst(RangeLoop(queue, Seed(state.Lock), state).q, Len(Last(yielded)))

FrontierBreadthFirstWitness ==
    /\ pc = "yield"
    /\ Len(Last(yielded)) = 2
    /\ \E a, b \in Held(queue) :
           /\ Len(queue.nodes[a].value.Seq) = 2
           /\ Len(queue.nodes[b].value.Seq) = 3

(***************************************************************************)
(* A client calling Enqueue and Dequeue on a Queue[int], and Highest on a  *)
(* KeyPress, in any order and with any argument; a call that panics is     *)
(* recovered from and the client goes on.                                  *)
(***************************************************************************)
MaxCalls == 5
MaxValue == 2

QueueValues == 1 .. MaxValue

(* Neither generator runs. *)
GeneratorsIdle ==
    /\ pc = "none"
    /\ queue = NewQueue(ZeroState)
    /\ state = ZeroState
    /\ yielded = <<>>
    /\ stopped = FALSE
    /\ expansions = 0
    /\ ppc = "idle"
    /\ plock = ZeroLock
    /\ pqueue = NewQueue(ZeroKeyPress)
    /\ press = ZeroKeyPress
    /\ pyielded = <<>>
    /\ pstopped = FALSE

InitCalls ==
    /\ GeneratorsIdle
    /\ UnitIdle

CallEnqueue(value) ==
    /\ ncalls < MaxCalls
    /\ lq' = Enqueue(lq, value)
    /\ fifo' = Append(fifo, value)
    /\ call' = [op |-> "Enqueue", value |-> value]
    /\ ncalls' = ncalls + 1
    /\ UNCHANGED <<hcall, emptied, applied, heap, slices>>
    /\ UNCHANGED <<combVars, npVars>>

CallDequeue ==
    /\ ncalls < MaxCalls
    /\ LET d == Dequeue(lq)
       IN  /\ lq' = d.q
           /\ call' = [op |-> "Dequeue", before |-> lq, pending |-> fifo, result |-> d]
    /\ fifo' = IF fifo = <<>> THEN fifo ELSE Tail(fifo)
    /\ emptied' = (emptied \/ (fifo # <<>> /\ Tail(fifo) = <<>>))
    /\ ncalls' = ncalls + 1
    /\ UNCHANGED <<hcall, applied, heap, slices>>
    /\ UNCHANGED <<combVars, npVars>>

CallHighest(k) ==
    /\ ncalls < MaxCalls
    /\ hcall' = [op |-> "Highest", k |-> k, result |-> Highest(k)]
    /\ ncalls' = ncalls + 1
    /\ UNCHANGED <<lq, fifo, call, emptied, applied, heap, slices>>
    /\ UNCHANGED <<combVars, npVars>>

NextCalls ==
    \/ \E value \in QueueValues : CallEnqueue(value)
    \/ CallDequeue
    \/ \E k \in SUBSET Buttons : CallHighest(k)

SpecCalls == InitCalls /\ [][NextCalls]_vars

(* The values held by q from front to back, following the next pointers. *)
RECURSIVE ContentsFrom(_, _)
ContentsFrom(q, a) ==
    IF a = q.back THEN <<>>
    ELSE <<q.nodes[a].value>> \o ContentsFrom(q, q.nodes[a].next)

Contents(q) == ContentsFrom(q, q.front)

\* C14: under any interleaving of Enqueue and Dequeue the linked list holds,
\* from front to back, the values enqueued and not yet dequeued, oldest
\* first; a Dequeue on a non-empty queue returns the oldest of them; and
\* IsEmpty is true exactly when none is left.
QueueIsFifo ==
    /\ Contents(lq) = fifo
    /\ IsEmpty(lq) <=> (fifo = <<>>)
    /\ (call.op = "Dequeue" /\ call.pending # <<>>) =>
           /\ ~call.result.panic
           /\ call.result.value = Head(call.pending)

QueueIsFifoWitness ==
    /\ emptied
    /\ call.op = "Dequeue"
    /\ Len(call.pending) = 2
    /\ call.pending[1] # call.pending[2]
    /\ ~IsEmpty(lq)

\* C16: Dequeue called on an empty queue panics, returns no value and leaves
\* the queue as it was; Highest called on a press with no button panics and
\* returns no index.
FailsLoudly ==
    /\ (call.op = "Dequeue" /\ call.pending = <<>>) =>
           /\ call.result.panic
           /\ "value" \notin DOMAIN call.result
           /\ lq = call.before
    /\ (hcall.op = "Highest" /\ hcall.k = ZeroKeyPress) =>
           /\ hcall.result.panic
           /\ "index" \notin DOMAIN hcall.result

FailsLoudlyWitness ==
    /\ call.op = "Dequeue"
    /\ call.pending = <<>>
    /\ emptied
    /\ hcall.op = "Highest"
    /\ hcall.k = ZeroKeyPress

(***************************************************************************)
(* A client applying presses, one after the other, to a lock: any lock to  *)
(* begin with, and any press, with no button or with buttons already       *)
(* pressed too.                                                            *)
(***************************************************************************)
InitApply ==
    /\ GeneratorsIdle
    /\ lq = NewQueue(0)
    /\ fifo = <<>>
    /\ call = [op |-> "none"]
    /\ hcall = [op |-> "none"]
    /\ ncalls = 0
    /\ emptied = FALSE
    /\ \E l \in Locks : applied = [l |-> l, kp |-> ZeroKeyPress, result |-> l]
    /\ heap = <<>>
    /\ slices = <<>>

(* lock = lock.Apply(kp) *)
CallApply(kp) ==
    /\ applied' = [l |-> applied.result, kp |-> kp, result |-> Apply(applied.result, kp)]
    /\ UNCHANGED <<callVars, heap, slices>>
    /\ UNCHANGED <<combVars, npVars>>

NextApply == \E kp \in SUBSET Buttons : CallApply(kp)

SpecApply == InitApply /\ [][NextApply]_vars

\* C15: l.Apply(kp) has every button pressed in l, and is exactly the union
\* of l and kp; so along a sequence of presses the set of pressed buttons
\* only grows.
ApplyIsUnion ==
    /\ [](/\ applied.l \subseteq applied.result
          /\ applied.result = applied.l \cup applied.kp)
    /\ [][applied.result \subseteq applied'.result]_vars

ApplyIsUnionWitness ==
    /\ applied.l # {}
    /\ applied.kp \cap applied.l # {}
    /\ applied.kp \ applied.l # {}
    /\ applied.result # Buttons
    /\ Cardinality(applied.result) = Cardinality(applied.l) + 1

(***************************************************************************)
(* KeySequence as Go stores it: a slice is a window (array, len, cap) on a *)
(* backing array of the heap, and two slices on one array see each other's *)
(* writes.  The nil slice has no array.  A client builds sequences as      *)
(* Combinations does: each from a sequence built before, several from the  *)
(* same one.                                                               *)
(***************************************************************************)
MaxAppends == 5

AppendPresses == {SingleKeyPress(0), Add(SingleKeyPress(1), 2)}

NilSlice == [array |-> 0, len |-> 0, cap |-> 0]

(* ks[0], ..., ks[len(ks)-1] *)
Elements(h, ks) == [i \in 1 .. ks.len |-> h[ks.array][i]]

(* make(KeySequence, 0, cap) *)
Make(h, cap) ==
    [h |-> Append(h, [i \in 1 .. cap |-> ZeroKeyPress]),
     s |-> [array |-> Len(h) + 1, len |-> 0, cap |-> cap]]

Max(a, b) == IF a >= b THEN a ELSE b

(* append(s, elems...): in place when the capacity suffices, else into a   *)
(* new array, of twice the capacity when that is enough.                   *)
GoAppend(h, s, elems) ==
    LET n == Len(elems)
        Write(arr, from) ==
            [i \in DOMAIN arr |->
                IF i > from /\ i <= from + n THEN elems[i - from] ELSE arr[i]]
    IN  IF s.len + n <= s.cap
        THEN [h |-> IF n = 0 THEN h
                    ELSE [h EXCEPT ![s.array] = Write(h[s.array], s.len)],
              s |-> [s EXCEPT !.len = s.len + n]]
        ELSE LET newcap == Max(2 * s.cap, s.len + n)
                 old == Elements(h, s)
                 copy == [i \in 1 .. newcap |->
                             IF i <= s.len THEN old[i] ELSE ZeroKeyPress]
             IN  [h |-> Append(h, Write(copy, s.len)),
                  s |-> [array |-> Len(h) + 1, len |-> s.len + n, cap |-> newcap]]

(* return append(ks, k) *)
KeySequenceAppendShared(h, ks, k) == GoAppend(h, ks, <<k>>)

KeySequenceAppendStored(h, ks, k) ==
    LET made == Make(h, ks.len + 1)
        copied == GoAppend(made.h, made.s, Elements(h, ks))
    IN  GoAppend(copied.h, copied.s, <<k>>)

InitAppend ==
    /\ GeneratorsIdle
    /\ lq = NewQueue(0)
    /\ fifo = <<>>
    /\ call = [op |-> "none"]
    /\ hcall = [op |-> "none"]
    /\ ncalls = 0
    /\ emptied = FALSE
    /\ applied = [l |-> ZeroLock, kp |-> ZeroKeyPress, result |-> ZeroLock]
    /\ heap = <<>>
    /\ slices = <<[slice |-> NilSlice, made |-> <<>>, from |-> 0]>>

(* Sequence: slices[i].Append(k) *)
CallAppend(i, k) ==
    /\ Len(slices) <= MaxAppends
    /\ LET r == KeySequenceAppendStored(heap, slices[i].slice, k)
       IN  /\ heap' = r.h
           /\ slices' = Append(slices,
                  [slice |-> r.s,
                   made |-> KeySequenceAppend(slices[i].made, k),
                   from |-> i])
    /\ UNCHANGED <<callVars, applied>>
    /\ UNCHANGED <<combVars, npVars>>

NextAppend == \E i \in 1 .. Len(slices) : \E k \in AppendPresses : CallAppend(i, k)

SpecAppend == InitAppend /\ [][NextAppend]_vars

\* C18: Append leaves its receiver unchanged and shares no storage with it:
\* after any number of Append calls, every sequence built so far, the parent
\* and the earlier siblings included, still has exactly the presses it had
\* when it was created, and no two sequences lie on the same array.
AppendSharesNothing ==
    /\ \A i \in 1 .. Len(slices) :
           Elements(heap, slices[i].slice) = slices[i].made
    /\ \A i, j \in 1 .. Len(slices) :
           (i # j /\ slices[i].slice.cap > 0 /\ slices[j].slice.cap > 0)
               => slices[i].slice.array # slices[j].slice.array

AppendSharesNothingWitness ==
    \E p, a, b, c \in 1 .. Len(slices) :
        /\ slices[p].slice.len >= 2
        /\ a < b
        /\ slices[a].from = p
        /\ slices[b].from = p
        /\ slices[a].made # slices[b].made
        /\ slices[c].from = a
        /\ b < c

====
